---- MODULE Spec2Model ----
(***************************************************************************)
(* Model of src/main.js: a peer-to-peer chunked file transfer over a       *)
(* WebRTC data channel, with optional per-chunk zstd compression.          *)
(*                                                                         *)
(* Two peers run the same program.  Every module-level `let` of main.js    *)
(* is a variable indexed by the peer; the data channel is modelled by the  *)
(* sender's send buffer (whose byte total is bufferedAmount) and by the    *)
(* frames in flight towards the other peer.                                *)
(***************************************************************************)
EXTENDS Integers, Sequences, FiniteSets, TLC

\* ------------------------------------------------------------- bounds ---
MaxLen  == 3      \* longest payload, in bytes
MaxByte == 2      \* payload bytes are 1..MaxByte
MaxFaults == 1    \* frames the channel loses or damages in one behaviour
MaxRuns == 2      \* sendFile invocations (clicks on sendFileBtn), both peers together
CtrlSize == 1     \* bytes of one JSON control frame on the channel

\* ------------------------------------------------ program constants -----
\* Scaled down from 64 * 1024 and 1024 * 1024 so that a payload of MaxLen
\* bytes spans several chunks and a few chunks overrun the threshold.
CHUNK_SIZE == 2
BUFFER_THRESHOLD == 4

\* First byte of a zstd frame (magic number 0xFD2FB528, little endian).
ZSTD_MAGIC == 40

Peers == {"A", "B"}
Other(p) == IF p = "A" THEN "B" ELSE "A"

Payloads == {[k \in 1..n |-> ((k - 1) % MaxByte) + 1] : n \in 0..MaxLen}

\* Optional values: null is the empty sequence, a value v is <<v>>.
None == <<>>
Some(v) == <<v>>

Min(a, b) == IF a < b THEN a ELSE b

\* F(x), with the argument x evaluated once before F is applied to it.
ByValue(F(_), x) == CHOOSE y \in {F(v) : v \in {x}} : TRUE

\* ------------------------------------------------------ pure functions --
\* Math.ceil(a / b) for integers a >= 0, b > 0.
CeilDiv(a, b) == IF a % b = 0 THEN a \div b ELSE (a \div b) + 1

\* totalChunks of a payload of `size` bytes cut in chunks of `c` bytes.
TotalChunksFloor(size, c) == size \div c
TotalChunksAtLeastOne(size, c) == IF size = 0 THEN 1 ELSE CeilDiv(size, c)
TotalChunks(size, c) == CeilDiv(size, c)

\* start and end of chunk i (0-based, end exclusive), as in the loop body.
ChunkStart(i, c) == i * c
ChunkEnd(i, len, c) == Min(ChunkStart(i, c) + c, len)

\* arrayBuffer.slice(start, end)
Slice(buf, start, end) == SubSeq(buf, start + 1, end)

\* The codec (an external library): a compressed chunk is a frame of a
\* magic byte, the content size and the content; decompression accepts
\* exactly such frames.
Compress(bytes) == <<ZSTD_MAGIC, Len(bytes)>> \o bytes
WellFormed(data) ==
    /\ Len(data) >= 2
    /\ data[1] = ZSTD_MAGIC
    /\ data[2] = Len(data) - 2
Decompress(data) == SubSeq(data, 3, Len(data))

\* What the library does with a malformed frame: it raises, or it returns null.
DecompressFailures == {"throws", "null"}

\* ----------------------------------------------------------- frames -----
MetadataFrame(run, size, compressed, total) ==
    [type |-> "metadata", run |-> run, size |-> size,
     compressed |-> compressed, totalChunks |-> total]
ChunkHeader(run, i, orig, wire) ==
    [type |-> "chunk", run |-> run, index |-> i,
     originalSize |-> orig, compressedSize |-> wire]
BinaryFrame(run, data) == [type |-> "binary", run |-> run, data |-> data]
CompleteFrame(run) == [type |-> "complete", run |-> run]

\* Bytes a frame adds to bufferedAmount.
FrameSize(f) == IF f.type = "binary" THEN Len(f.data) ELSE CtrlSize

SumSizes(fs) ==
    LET sum[k \in 0..Len(fs)] == IF k = 0 THEN 0 ELSE sum[k - 1] + FrameSize(fs[k])
    IN  sum[Len(fs)]

\* No chunk header stored yet after the metadata frame of run `run`.
NoHeaders(run, total) == [meta |-> run, total |-> total, idx |-> <<>>, done |-> FALSE]

NewBenchmark(size) ==
    [endTime |-> 0, originalSize |-> size, compressedSize |-> 0,
     chunksSent |-> 0, chunksReceived |-> 0]


\* ------------------------------------------------------------ state -----
VARIABLES
    dataChannel,      \* [peer -> "null" | "connecting" | "open" | "closed"]: dataChannel and its readyState
    zstdCodec,        \* [peer -> BOOLEAN]: zstdCodec is set (initZstd has completed)
    benchmark,        \* [peer -> record]: the module-level benchmark object
    incomingFile,     \* [peer -> None | Some(record)]
    receivedChunks,   \* [peer -> sequence of None (a null) | Some(bytes)]
    receivedSize,     \* [peer -> Nat]
    fileList,         \* [peer -> sequence of delivered files]
    logOutput,        \* [peer -> set of error and warning lines logged]
    uncaught,         \* [peer -> set of exceptions that escaped a handler]
    runs,             \* [peer -> sequence of sendFile activations]
    sendBuffer,       \* [peer -> frames queued in the channel; their bytes are bufferedAmount]
    lowThreshold,     \* [peer -> channel.bufferedAmountLowThreshold]
    listeners,        \* [peer -> runs whose onBufferLow listener is registered, in order]
    sent,             \* [peer -> every frame the peer has put on the channel]
    fileChoices,      \* [peer -> the files the peer's user may select in fileInput]
    pairAbove,        \* [peer -> BOOLEAN]: a chunk was sent with bufferedAmount above the threshold
    headersSeen,      \* [peer -> the chunk headers stored between the last metadata frame and its completion frame]
    clicks,           \* [peer -> sendFile invocations so far]
    faults,           \* frames the channel has lost or damaged so far
    lastRecv          \* the frame handled by the last onmessage call, and the receiver's state before it

vars == <<dataChannel, zstdCodec, benchmark, incomingFile, receivedChunks,
          receivedSize, fileList, logOutput, uncaught, runs, sendBuffer,
          lowThreshold, listeners, sent, fileChoices, pairAbove, headersSeen, clicks, faults, lastRecv>>

senderVars == <<runs, sendBuffer, lowThreshold, listeners, sent, pairAbove>>
receiverVars == <<incomingFile, receivedChunks, receivedSize, fileList, uncaught,
                  headersSeen>>
userVars == <<fileChoices, clicks>>
\* Left alone by every step but a frame's delivery or loss.
channelVars == <<faults, lastRecv>>

\* channel.bufferedAmount
BufferedAmount(p) == SumSizes(sendBuffer[p])

\* The receiver states of the design, read off the transfer state.
RecvState(q) ==
    IF incomingFile[q] = None THEN "Idle"
    ELSE IF incomingFile[q][1].currentChunk = None THEN "AwaitingChunk"
    ELSE "HaveHeader"

InitPeers ==
    /\ benchmark = [p \in Peers |-> NewBenchmark(0)]
    /\ incomingFile = [p \in Peers |-> None]
    /\ receivedChunks = [p \in Peers |-> <<>>]
    /\ receivedSize = [p \in Peers |-> 0]
    /\ fileList = [p \in Peers |-> <<>>]
    /\ logOutput = [p \in Peers |-> {}]
    /\ uncaught = [p \in Peers |-> {}]
    /\ runs = [p \in Peers |-> <<>>]
    /\ sendBuffer = [p \in Peers |-> <<>>]
    /\ lowThreshold = [p \in Peers |-> 0]
    /\ listeners = [p \in Peers |-> <<>>]
    /\ sent = [p \in Peers |-> <<>>]
    /\ pairAbove = [p \in Peers |-> FALSE]
    /\ headersSeen = [p \in Peers |-> NoHeaders(0, 0)]
    /\ clicks = [p \in Peers |-> 0]
    /\ faults = 0
    /\ lastRecv = [to |-> "none", type |-> "none", before |-> "Idle"]

\* One peer's user has files to send, the other only receives.
Init ==
    /\ InitPeers
    /\ dataChannel = [p \in Peers |-> "null"]
    /\ zstdCodec = [p \in Peers |-> FALSE]
    /\ fileChoices = [p \in Peers |-> IF p = "A" THEN Payloads ELSE {}]

\* ------------------------------------------------- codec and channel ----
\* initZstd: the codec's run callback sets zstdCodec.
InitZstd(p) ==
    /\ ~zstdCodec[p]
    /\ zstdCodec' = [zstdCodec EXCEPT ![p] = TRUE]
    /\ UNCHANGED <<dataChannel, benchmark, senderVars, receiverVars, userVars,
                   logOutput, channelVars>>

\* createOffer: the offerer creates the channel and sets it up.
CreateOffer(p) ==
    /\ \A q \in Peers : dataChannel[q] = "null"
    /\ dataChannel' = [dataChannel EXCEPT ![p] = "connecting"]
    /\ UNCHANGED <<zstdCodec, benchmark, senderVars, receiverVars, userVars,
                   logOutput, channelVars>>

\* peerConnection.ondatachannel: the answerer receives the channel.
OnDataChannel(p) ==
    /\ dataChannel[p] = "null"
    /\ dataChannel[Other(p)] \in {"connecting", "open"}
    /\ dataChannel' = [dataChannel EXCEPT ![p] = "connecting"]
    /\ UNCHANGED <<zstdCodec, benchmark, senderVars, receiverVars, userVars,
                   logOutput, channelVars>>

\* dataChannel.onopen
OnOpen(p) ==
    /\ dataChannel[p] = "connecting"
    /\ dataChannel[Other(p)] \in {"connecting", "open"}
    /\ dataChannel' = [dataChannel EXCEPT ![p] = "open"]
    /\ UNCHANGED <<zstdCodec, benchmark, senderVars, receiverVars, userVars,
                   logOutput, channelVars>>

\* The connection goes away: both ends of the channel become closed and each
\* peer's dataChannel.onclose runs.
OnClose ==
    /\ \A p \in Peers : dataChannel[p] = "open"
    /\ dataChannel' = [p \in Peers |-> "closed"]
    /\ UNCHANGED <<zstdCodec, benchmark, senderVars, receiverVars, userVars,
                   logOutput, channelVars>>

\* ----------------------------------------------------------- sender -----
\* The part of a peer's state the send loop works on.
SenderState(p) ==
    [runs |-> runs[p], buf |-> sendBuffer[p], bench |-> benchmark[p],
     hist |-> sent[p], lis |-> listeners[p], thr |-> lowThreshold[p],
     log |-> logOutput[p], above |-> pairAbove[p]]

\* dataChannel.send(f) on an open channel.
ChannelSend(ss, f) == [ss EXCEPT !.buf = Append(@, f), !.hist = Append(@, f)]

\* The exception e leaves sendFile: the activation ends there.
Throw(ss, r, e) == [ss EXCEPT !.runs[r].pc = e]

\* compressData(chunk, level).data, or the chunk itself.
ChunkToSendCompressed(chunk, useCompression) == Compress(chunk)
ChunkToSend(chunk, useCompression) ==
    IF useCompression THEN Compress(chunk) ELSE chunk

\* chunkToSend.byteLength || chunkToSend.length: an ArrayBuffer (the chunk as
\* sliced) has no length property, the codec's Uint8Array has both.
Undefined == -1
ByteLengthOrLength(bytes, isTypedArray) ==
    IF Len(bytes) # 0 THEN Len(bytes)
    ELSE IF isTypedArray THEN Len(bytes) ELSE Undefined

\* The two sends of one iteration: the chunk header, then the chunk data.
SendChunkHeaderOnly(ss, header, binary) == ChannelSend(ss, header)
SendChunkSwapped(ss, header, binary) == ChannelSend(ChannelSend(ss, binary), header)
SendChunk(ss, header, binary) == ChannelSend(ChannelSend(ss, header), binary)

\* if (dataChannel.bufferedAmount > BUFFER_THRESHOLD)
ShouldDrain(buffered) == buffered > BUFFER_THRESHOLD

\* The for loop of sendFile from iteration runs[r].i on, up to the next
\* await that suspends, the exception that ends it, or the return.
RECURSIVE SendLoop(_, _, _, _)
SendLoop(ss, r, open, codec) ==
    LET run == ss.runs[r]
        i == run.i
    IN  IF i < run.totalChunks
        THEN LET start == ChunkStart(i, CHUNK_SIZE)
                 end == ChunkEnd(i, Len(run.arrayBuffer), CHUNK_SIZE)
                 chunk == Slice(run.arrayBuffer, start, end)
             IN  IF run.useCompression /\ ~codec
                 THEN Throw(ss, r, "Zstd codec not initialized")   \* compressData throws
                 ELSE LET chunkToSend == ChunkToSend(chunk, run.useCompression)
                          s1 == [ss EXCEPT !.bench.compressedSize = @ + Len(chunkToSend)]
                          header == ChunkHeader(r, i, Len(chunk),
                                               ByteLengthOrLength(chunkToSend,
                                                                  run.useCompression))
                      IN  IF ~open
                          THEN Throw(s1, r, "InvalidStateError")   \* send throws on a closed channel
                          ELSE LET s2 == SendChunk(s1, header, BinaryFrame(r, chunkToSend))
                                   s3 == [s2 EXCEPT !.bench.chunksSent = @ + 1,
                                                    !.above = @ \/ SumSizes(ss.buf) > BUFFER_THRESHOLD]
                               IN  IF ShouldDrain(SumSizes(s3.buf))
                                   THEN [s3 EXCEPT !.log = @ \cup {"Buffer full"},
                                                   !.thr = BUFFER_THRESHOLD,
                                                   !.lis = Append(@, r),
                                                   !.runs[r].pc = "drain"]
                                   ELSE ByValue(LAMBDA s : SendLoop(s, r, open, codec),
                                                [s3 EXCEPT !.runs[r].i = i + 1])
        ELSE IF ~open
             THEN Throw(ss, r, "InvalidStateError")
             ELSE [ChannelSend(ss, CompleteFrame(r))
                      EXCEPT !.bench.endTime = 1, !.runs[r].pc = "done"]

SetSender(p, ss) ==
    /\ runs' = [runs EXCEPT ![p] = ss.runs]
    /\ sendBuffer' = [sendBuffer EXCEPT ![p] = ss.buf]
    /\ sent' = [sent EXCEPT ![p] = ss.hist]
    /\ listeners' = [listeners EXCEPT ![p] = ss.lis]
    /\ lowThreshold' = [lowThreshold EXCEPT ![p] = ss.thr]
    /\ logOutput' = [logOutput EXCEPT ![p] = ss.log]
    /\ pairAbove' = [pairAbove EXCEPT ![p] = ss.above]

\* dataChannel && dataChannel.readyState === 'open'
ChannelReadyNoStateCheck(p) == dataChannel[p] # "null"
ChannelReady(p) == dataChannel[p] = "open"

\* sendFile up to `await file.arrayBuffer()`.  file is fileInput.files[0]
\* (None when no file is selected), useCompression is compressionToggle.checked.
SendFileStart(ss, file, useCompression) ==
    LET r == Len(ss.runs) + 1
        size == Len(file[1])
        run == [pc |-> "read", arrayBuffer |-> file[1],
                useCompression |-> useCompression,
                totalChunks |-> 0, i |-> 0]
        s1 == [ss EXCEPT !.bench = NewBenchmark(size), !.runs = Append(@, run)]
    IN  ChannelSend(s1, MetadataFrame(r, size, useCompression,
                                      TotalChunks(size, CHUNK_SIZE)))

SendFile(p) ==
    \E file \in {None} \cup {Some(b) : b \in fileChoices[p]}, useCompression \in BOOLEAN :
        /\ IF file = None
           THEN /\ logOutput' = [logOutput EXCEPT ![p] = @ \cup {"No file selected"}]
                /\ UNCHANGED <<benchmark, senderVars>>
           ELSE IF ~ChannelReady(p)
           THEN /\ logOutput' = [logOutput EXCEPT ![p] = @ \cup {"Data channel not ready"}]
                /\ UNCHANGED <<benchmark, senderVars>>
           ELSE \E ss \in {SendFileStart(SenderState(p), file, useCompression)} :
                    /\ SetSender(p, ss)
                    /\ benchmark' = [benchmark EXCEPT ![p] = ss.bench]
        /\ clicks["A"] + clicks["B"] < MaxRuns
        /\ clicks' = [clicks EXCEPT ![p] = @ + 1]
        /\ UNCHANGED <<dataChannel, zstdCodec, receiverVars, fileChoices, channelVars>>

\* file.arrayBuffer() resolves: the loop starts.
ResumeRead(p, r) ==
    /\ r \in DOMAIN runs[p]
    /\ runs[p][r].pc = "read"
    /\ LET ss == SenderState(p)
           n == TotalChunks(Len(runs[p][r].arrayBuffer), CHUNK_SIZE)
           s1 == [ss EXCEPT !.runs[r].totalChunks = n, !.runs[r].i = 0,
                            !.runs[r].pc = "loop"]
       IN  \E s2 \in {SendLoop(s1, r, ChannelReady(p), zstdCodec[p])} :
               /\ SetSender(p, s2)
               /\ benchmark' = [benchmark EXCEPT ![p] = s2.bench]
    /\ UNCHANGED <<dataChannel, zstdCodec, receiverVars, userVars, channelVars>>

\* A bufferedamountlow event is dispatched: each registered onBufferLow
\* removes itself and resolves, and the awaiting activation continues with
\* the next iteration before the next listener is called.
RECURSIVE Dispatch(_, _, _, _)
Dispatch(ss, ls, open, codec) ==
    IF ls = <<>> THEN ss
    ELSE LET r == Head(ls)
             s1 == [ss EXCEPT !.lis = SelectSeq(@, LAMBDA x : x # r),
                              !.runs[r].pc = "loop",
                              !.runs[r].i = @ + 1]
         IN  ByValue(LAMBDA s : Dispatch(s, Tail(ls), open, codec),
                     ByValue(LAMBDA s : SendLoop(s, r, open, codec), s1))

\* The transport has sent the oldest queued frame: bufferedAmount drops and,
\* when it falls to the low threshold from above, bufferedamountlow is fired
\* in the same task.
DrainHead(ss, open, codec) ==
    LET s1 == [ss EXCEPT !.buf = Tail(@)]
    IN  IF SumSizes(ss.buf) > ss.thr /\ SumSizes(s1.buf) <= ss.thr
        THEN ByValue(LAMBDA s : Dispatch(s, ss.lis, open, codec), s1)
        ELSE s1

\* --------------------------------------------------------- receiver -----
\* The part of a peer's state the message handlers work on.
ReceiverState(q) ==
    [inc |-> incomingFile[q], chunks |-> receivedChunks[q],
     size |-> receivedSize[q], bench |-> benchmark[q],
     files |-> fileList[q], unc |-> uncaught[q], hdrs |-> headersSeen[q]]

\* An exception leaves the onmessage handler.
Raise(rs, e) == [rs EXCEPT !.unc = @ \cup {e}]

\* handleFileMetadata(metadata)
HandleFileMetadata(rs, m) ==
    [rs EXCEPT !.inc = Some([size |-> m.size, compressed |-> m.compressed,
                             totalChunks |-> m.totalChunks,
                             currentChunk |-> None]),
               !.chunks = <<>>,
               !.size = 0,
               !.bench = NewBenchmark(m.size),
               !.hdrs = NoHeaders(m.run, m.totalChunks)]

\* case 'chunk': incomingFile.currentChunk = message
HandleChunkHeader(rs, m) ==
    IF rs.inc = None
    THEN Raise(rs, "TypeError: incomingFile is null")
    ELSE [rs EXCEPT !.inc[1].currentChunk =
              Some([index |-> m.index, originalSize |-> m.originalSize,
                    compressedSize |-> m.compressedSize]),
               !.hdrs.idx = IF rs.hdrs.done THEN @ ELSE Append(@, m.index)]

\* receivedChunks.push(chunkData) and the bookkeeping after it.
AcceptChunk(rs, bytes) ==
    [rs EXCEPT !.chunks = Append(@, Some(bytes)),
               !.size = @ + Len(bytes),
               !.bench.chunksReceived = @ + 1,
               !.inc[1].currentChunk = None]

\* handleChunkData(data) past its guard; onFailure is what the codec does with
\* a malformed frame.
ProcessChunk(rs, data, codec, onFailure) ==
    LET s1 == [rs EXCEPT !.bench.compressedSize = @ + Len(data)]
    IN  IF ~rs.inc[1].compressed
        THEN AcceptChunk(s1, data)
        ELSE IF ~codec
        THEN Raise(s1, "Zstd codec not initialized")
        ELSE IF WellFormed(data)
        THEN AcceptChunk(s1, Decompress(data))
        ELSE IF onFailure = "throws"
        THEN Raise(s1, "decompress failed")
        \* null is pushed, and reading its byteLength throws
        ELSE Raise([s1 EXCEPT !.chunks = Append(@, None)],
                   "TypeError: chunkData is null")

\* handleChunkData(data)
HandleChunkDataNoHeaderCheck(rs, data, codec, onFailure) ==
    IF rs.inc = None THEN rs ELSE ProcessChunk(rs, data, codec, onFailure)
HandleChunkData(rs, data, codec, onFailure) ==
    IF rs.inc = None \/ rs.inc[1].currentChunk = None
    THEN rs
    ELSE ProcessChunk(rs, data, codec, onFailure)

\* The bytes of combinedData: the chunks one after the other.
RECURSIVE Combine(_)
Combine(chunks) ==
    IF chunks = <<>> THEN <<>> ELSE Head(chunks)[1] \o Combine(Tail(chunks))

\* handleTransferComplete()
HandleTransferComplete(rs) ==
    LET s1 == [rs EXCEPT !.bench.endTime = 1]
    IN  IF \E k \in DOMAIN rs.chunks : rs.chunks[k] = None
        THEN Raise(s1, "TypeError: chunk is null")         \* the reduce reads null.byteLength
        ELSE IF rs.inc = None
        THEN Raise(s1, "TypeError: incomingFile is null")  \* incomingFile.mimeType
        ELSE [s1 EXCEPT !.files = Append(@, [bytes |-> Combine(rs.chunks),
                                             size |-> rs.inc[1].size]),
                        !.inc = None,
                        !.chunks = <<>>,
                        !.size = 0]

\* handleDataChannelMessage(event)
HandleDataChannelMessage(rs, f, codec, onFailure) ==
    CASE f.type = "metadata" -> HandleFileMetadata(rs, f)
      [] f.type = "chunk" -> HandleChunkHeader(rs, f)
      [] f.type = "complete" ->
            [HandleTransferComplete(rs) EXCEPT !.hdrs.done = @ \/ f.run = rs.hdrs.meta]
      [] OTHER -> HandleChunkData(rs, f.data, codec, onFailure)

SetReceiver(q, rs) ==
    /\ incomingFile' = [incomingFile EXCEPT ![q] = rs.inc]
    /\ receivedChunks' = [receivedChunks EXCEPT ![q] = rs.chunks]
    /\ receivedSize' = [receivedSize EXCEPT ![q] = rs.size]
    /\ fileList' = [fileList EXCEPT ![q] = rs.files]
    /\ uncaught' = [uncaught EXCEPT ![q] = rs.unc]
    /\ headersSeen' = [headersSeen EXCEPT ![q] = rs.hdrs]

\* The transport takes the oldest queued frame of p's channel and hands it to
\* the other end.  At p, bufferedAmount drops and a bufferedamountlow event is
\* queued when it falls to the low threshold from above; at the other peer,
\* dataChannel.onmessage handles the frame.
DeliverFrame(p, f) ==
    LET q == Other(p)
    IN  /\ \A x \in Peers : dataChannel[x] = "open"
        /\ sendBuffer[p] # <<>>
        /\ \E ss \in {DrainHead(SenderState(p), ChannelReady(p), zstdCodec[p])} :
              /\ SetSender(p, ss)
              /\ \E onFailure \in DecompressFailures :
                    \E rs \in {HandleDataChannelMessage(ReceiverState(q), f,
                                                         zstdCodec[q], onFailure)} :
                        /\ SetReceiver(q, rs)
                        /\ benchmark' = [benchmark EXCEPT ![p] = ss.bench,
                                                           ![q] = rs.bench]
        /\ lastRecv' = [to |-> q, type |-> f.type, before |-> RecvState(q)]
        /\ UNCHANGED <<dataChannel, zstdCodec, userVars>>

Deliver(p) ==
    /\ sendBuffer[p] # <<>>
    /\ DeliverFrame(p, Head(sendBuffer[p]))
    /\ UNCHANGED faults

\* ----------------------------------------------------- specification ----
Next ==
    \/ \E p \in Peers : InitZstd(p)
    \/ \E p \in Peers : CreateOffer(p)
    \/ \E p \in Peers : OnDataChannel(p)
    \/ \E p \in Peers : OnOpen(p)
    \/ OnClose
    \/ \E p \in Peers : SendFile(p)
    \/ \E p \in Peers : \E r \in 1..MaxRuns : ResumeRead(p, r)
    \/ \E p \in Peers : Deliver(p)

Spec == Init /\ [][Next]_vars

\* A channel that may also lose a frame, or damage the first byte of a binary
\* frame, on its way to the other end.
Damaged(f) == [f EXCEPT !.data[1] = 0]

Lose(p) ==
    /\ \A x \in Peers : dataChannel[x] = "open"
    /\ sendBuffer[p] # <<>>
    /\ \E ss \in {DrainHead(SenderState(p), ChannelReady(p), zstdCodec[p])} :
          /\ SetSender(p, ss)
          /\ benchmark' = [benchmark EXCEPT ![p] = ss.bench]
    /\ lastRecv' = [to |-> Other(p), type |-> "lost", before |-> RecvState(Other(p))]
    /\ faults < MaxFaults
    /\ faults' = faults + 1
    /\ UNCHANGED <<dataChannel, zstdCodec, receiverVars, userVars>>

DeliverDamaged(p) ==
    /\ sendBuffer[p] # <<>>
    /\ Head(sendBuffer[p]).type = "binary"
    /\ Len(Head(sendBuffer[p]).data) > 0
    /\ DeliverFrame(p, Damaged(Head(sendBuffer[p])))
    /\ faults < MaxFaults
    /\ faults' = faults + 1

\* An established session: both codecs are initialised and the channel is open.
InitFaulty ==
    /\ InitPeers
    /\ dataChannel = [p \in Peers |-> "open"]
    /\ zstdCodec = [p \in Peers |-> TRUE]
    /\ fileChoices = [p \in Peers |-> IF p = "A" THEN Payloads ELSE {}]

NextFaulty ==
    \/ \E p \in Peers : SendFile(p)
    \/ \E p \in Peers : \E r \in 1..MaxRuns : ResumeRead(p, r)
    \/ \E p \in Peers : Deliver(p)
    \/ \E p \in Peers : Lose(p)
    \/ \E p \in Peers : DeliverDamaged(p)

SpecFaulty == InitFaulty /\ [][NextFaulty]_vars


\* ----------------------------------------------------------- claims -----
\* The frames of run r among those p has put on the channel, in send order.
FramesOf(p, r) == SelectSeq(sent[p], LAMBDA f : f.run = r)

\* Every frame on p's channel comes from one sendFile run.
SingleRun(p) == Len(runs[p]) = 1

\* The sequence 0, 1, ..., n-1.
UpTo(n) == [k \in 1..n |-> k - 1]

IsPrefix(s, t) == Len(s) <= Len(t) /\ \A k \in DOMAIN s : s[k] = t[k]

\* C1: round trip.  When all the frames on p's channel come from one sendFile
\* run, every file the other peer assembles in handleTransferComplete is the
\* payload of that run, byte for byte.
C1_RoundTrip ==
    \A p \in Peers :
        SingleRun(p) =>
            \A k \in DOMAIN fileList[Other(p)] :
                fileList[Other(p)][k].bytes = runs[p][1].arrayBuffer

\* The round trip of C1 for the transfers during which no handler of the
\* receiver raised.
RoundTripNoRaise ==
    \A p \in Peers :
        (SingleRun(p) /\ uncaught[Other(p)] = {}) =>
            \A k \in DOMAIN fileList[Other(p)] :
                fileList[Other(p)][k].bytes = runs[p][1].arrayBuffer

\* C2: the frames of one sendFile run are, in order, one metadata frame, then
\* for i = 0..totalChunks-1 a chunk header with index i followed by a binary
\* frame, then one completion frame; nothing follows the completion frame, and
\* a run that has returned has sent them all.
InOrder(fs) ==
    LET n == fs[1].totalChunks
    IN  /\ fs[1].type = "metadata"
        /\ Len(fs) <= 2 * n + 2
        /\ \A k \in 2..Len(fs) :
              IF k = 2 * n + 2 THEN fs[k].type = "complete"
              ELSE IF k % 2 = 0 THEN fs[k].type = "chunk" /\ fs[k].index = (k \div 2) - 1
              ELSE fs[k].type = "binary"

C2_FrameOrder ==
    \A p \in Peers : \A r \in DOMAIN runs[p] :
        LET fs == FramesOf(p, r)
        IN  /\ fs # <<>>
            /\ InOrder(fs)
            /\ runs[p][r].pc = "done" => Len(fs) = 2 * fs[1].totalChunks + 2

C2_Witness ==
    \E p \in Peers : \E r \in DOMAIN runs[p] :
        /\ runs[p][r].pc = "done"
        /\ Len(FramesOf(p, r)) = 6

\* C3: the indices of the chunk headers the receiver stores between a metadata
\* frame and its completion frame are 0, 1, ..., totalChunks-1: a prefix of
\* them until the completion frame arrives, all of them once it has.
HeadersInSequence(h) ==
    IF h.done THEN h.idx = UpTo(h.total) ELSE IsPrefix(h.idx, UpTo(h.total))

C3_HeaderIndices == \A q \in Peers : HeadersInSequence(headersSeen[q])

\* C3 for a receiver whose frames all come from one sendFile run.
HeaderIndicesSingleRun ==
    \A q \in Peers : SingleRun(Other(q)) => HeadersInSequence(headersSeen[q])

HeaderIndicesWitness ==
    \E q \in Peers :
        /\ SingleRun(Other(q))
        /\ headersSeen[q].done
        /\ headersSeen[q].idx = <<0, 1>>

\* C4: totalChunks in the metadata frame is ceil(L / C), the run sends that
\* many (header, payload) pairs, every chunk but the last has originalSize C
\* and the last has L mod C, or C when C divides L; and L = 200000 with
\* C = 65536 gives 65536, 65536, 65536, 3392.
IsCeil(n, len, c) == n * c >= len /\ (n = 0 \/ (n - 1) * c < len)

ExpectedSize(i, n, len, c) ==
    IF i < n - 1 THEN c ELSE IF len % c = 0 THEN c ELSE len % c

HeadersOf(p, r) == SelectSeq(FramesOf(p, r), LAMBDA f : f.type = "chunk")

C4_ChunkCount ==
    /\ \A p \in Peers : \A r \in DOMAIN runs[p] :
          LET len == Len(runs[p][r].arrayBuffer)
              n == FramesOf(p, r)[1].totalChunks
              hs == HeadersOf(p, r)
          IN  /\ IsCeil(n, len, CHUNK_SIZE)
              /\ Len(hs) <= n
              /\ runs[p][r].pc = "done" => Len(hs) = n
              /\ \A k \in DOMAIN hs :
                    hs[k].originalSize = ExpectedSize(k - 1, n, len, CHUNK_SIZE)
    /\ TotalChunks(200000, 65536) = 4
    /\ [i \in 0..3 |-> ChunkEnd(i, 200000, 65536) - ChunkStart(i, 65536)]
          = [i \in 0..3 |-> IF i < 3 THEN 65536 ELSE 3392]

C4_Witness ==
    \E p \in Peers : \E r \in DOMAIN runs[p] :
        /\ runs[p][r].pc = "done"
        /\ Len(runs[p][r].arrayBuffer) = 3
        /\ Len(HeadersOf(p, r)) = 2
        /\ HeadersOf(p, r)[2].originalSize = 1


\* C5: backpressure.  No chunk pair is sent while bufferedAmount is already
\* above the threshold, and bufferedAmount never exceeds the threshold by more
\* than one chunk's worth of bytes (one header and one payload).
ChunkWorth == CtrlSize + Len(Compress([k \in 1..CHUNK_SIZE |-> 1]))

NoPairAboveThreshold == \A p \in Peers : ~pairAbove[p]

OverrunBounded ==
    \A p \in Peers : BufferedAmount(p) <= BUFFER_THRESHOLD + ChunkWorth

C5_Backpressure == NoPairAboveThreshold /\ OverrunBounded

\* C5 for a channel that carries the frames of one sendFile run only.
BackpressureSingleRun ==
    \A p \in Peers : clicks[p] <= 1 =>
        ~pairAbove[p] /\ BufferedAmount(p) <= BUFFER_THRESHOLD + ChunkWorth

\* The step hands the oldest frame of p's channel, of the given type, to the
\* other peer's onmessage handler.
Handled(p, type) ==
    /\ sendBuffer[p] # <<>>
    /\ Head(sendBuffer[p]).type = type
    /\ sendBuffer'[p] = Tail(sendBuffer[p])
    /\ lastRecv'.type = type

\* The transfer state of the receiver q that the claims speak of.
TransferState(q) ==
    <<incomingFile[q], receivedChunks[q], receivedSize[q],
      benchmark[q].chunksReceived>>

\* C6: a metadata frame that arrives while a transfer is active is reported
\* as a ProtocolViolation and leaves the active transfer's state (metadata,
\* pending header, accumulated chunks, receivedBytes, receivedChunks) unchanged.
C6_OverlapRejected ==
    [][\A p \in Peers :
          (Handled(p, "metadata") /\ incomingFile[Other(p)] # None) =>
              /\ TransferState(Other(p))' = TransferState(Other(p))
              /\ "ProtocolViolation" \in logOutput'[Other(p)]]_vars

\* A decompression of a binary frame has failed at q.
DecompressFailed(q) ==
    uncaught[q] \cap {"decompress failed", "TypeError: chunkData is null"} # {}

\* C7: when the decompression of a binary frame fails, a CodecError is logged,
\* the chunk is not appended to the accumulated chunks, and the completion
\* frame of the transfer finalizes it with fewer bytes than declared and a
\* SizeMismatch report.
C7_CorruptedChunk ==
    \A q \in Peers :
        DecompressFailed(q) =>
            /\ "CodecError" \in logOutput[q]
            /\ \A k \in DOMAIN receivedChunks[q] : receivedChunks[q][k] # None
            /\ (lastRecv.to = q /\ lastRecv.type = "complete"
                    /\ lastRecv.before # "Idle") =>
                  /\ RecvState(q) = "Idle"
                  /\ fileList[q] # <<>>
                  /\ LET file == fileList[q][Len(fileList[q])]
                     IN  Len(file.bytes) < file.size
                  /\ "SizeMismatch" \in logOutput[q]

\* The total length of the accumulated chunks.
RECURSIVE TotalLength(_)
TotalLength(chunks) ==
    IF chunks = <<>> THEN 0
    ELSE (IF Head(chunks) = None THEN 0 ELSE Len(Head(chunks)[1]))
         + TotalLength(Tail(chunks))

\* C8: a completion frame processed when the accumulated length differs from
\* the declared size reports a SizeMismatch, and the transfer is still
\* finalized: the assembled bytes are delivered and the receiver is Idle.
C8_SizeMismatchReported ==
    [][\A p \in Peers :
          LET q == Other(p)
          IN  (/\ Handled(p, "complete")
               /\ incomingFile[q] # None
               /\ TotalLength(receivedChunks[q]) # incomingFile[q][1].size) =>
                  /\ "SizeMismatch" \in logOutput'[q]
                  /\ Len(fileList'[q]) = Len(fileList[q]) + 1
                  /\ incomingFile'[q] = None]_vars

\* C9: a binary frame that arrives when no chunk header is pending leaves the
\* accumulated chunks, receivedSize, chunksReceived and the receiver's state
\* unchanged.
C9_BinaryWithoutHeader ==
    [][\A p \in Peers :
          LET q == Other(p)
          IN  (/\ Handled(p, "binary")
               /\ (incomingFile[q] = None \/ incomingFile[q][1].currentChunk = None)) =>
                  /\ TransferState(q)' = TransferState(q)
                  /\ benchmark'[q] = benchmark[q]
                  /\ fileList'[q] = fileList[q]]_vars

C9_Witness ==
    /\ lastRecv.type = "binary"
    /\ lastRecv.before = "AwaitingChunk"
    /\ receivedChunks[lastRecv.to] # <<>>

\* C10: sendFile invoked while the data channel is absent or not open sends no
\* frame and changes neither the benchmark nor any transfer state.
C10_ChannelNotReady ==
    [][\A p \in Peers :
          (clicks'[p] # clicks[p] /\ dataChannel[p] # "open") =>
              /\ sent'[p] = sent[p]
              /\ UNCHANGED <<benchmark, senderVars, receiverVars>>]_vars

C10_Witness ==
    \E p \in Peers :
        /\ "Data channel not ready" \in logOutput[p]
        /\ dataChannel[p] = "closed"
        /\ benchmark[p].chunksSent > 0

\* C11: a run with an empty payload sends a metadata frame with totalChunks 0,
\* no chunk header and no binary frame, and one completion frame; a receiver
\* that was Idle and has handled these frames has delivered a file of length
\* 0 and is Idle again.
C11_EmptyPayload ==
    \A p \in Peers : \A r \in DOMAIN runs[p] :
        runs[p][r].arrayBuffer = <<>> =>
            LET fs == FramesOf(p, r)
                q == Other(p)
            IN  /\ fs[1].type = "metadata" /\ fs[1].totalChunks = 0 /\ fs[1].size = 0
                /\ Len(fs) <= 2
                /\ \A k \in 2..Len(fs) : fs[k].type = "complete"
                /\ runs[p][r].pc = "done" => Len(fs) = 2
                /\ (SingleRun(p) /\ runs[p][r].pc = "done" /\ sendBuffer[p] = <<>>) =>
                      /\ fileList[q] = <<[bytes |-> <<>>, size |-> 0]>>
                      /\ RecvState(q) = "Idle"
                      /\ receivedChunks[q] = <<>>
                      /\ receivedSize[q] = 0

C11_Witness ==
    \E p \in Peers :
        /\ SingleRun(p)
        /\ runs[p][1].arrayBuffer = <<>>
        /\ runs[p][1].pc = "done"
        /\ sendBuffer[p] = <<>>
        /\ Len(fileList[Other(p)]) = 1

\* The scheduling the browser guarantees: the codec's run callback is called,
\* a channel whose two ends exist opens, a frame queued on an open channel is
\* transmitted, and file.arrayBuffer() resolves.
Fairness ==
    /\ WF_vars(\E p \in Peers : InitZstd(p))
    /\ WF_vars(\E p \in Peers : OnOpen(p))
    /\ WF_vars(\E p \in Peers : Deliver(p))
    /\ WF_vars(\E p \in Peers : \E r \in 1..MaxRuns : ResumeRead(p, r))

SpecLive == Spec /\ Fairness

SpecFaultyLive ==
    /\ SpecFaulty
    /\ WF_vars(\E p \in Peers : Deliver(p))
    /\ WF_vars(\E p \in Peers : \E r \in 1..MaxRuns : ResumeRead(p, r))

\* The activation r of sendFile at p has sent its completion frame and returned.
Returned(p, r) == r \in DOMAIN runs[p] /\ runs[p][r].pc = "done"

\* C12: sender progress.  No activation stays suspended in the drain wait
\* while bufferedAmount is at or below the threshold, and while the channel
\* stays open and drains every sendFile run started on it eventually sends
\* its completion frame and returns.
NoWaitBelowThreshold ==
    \A p \in Peers : \A r \in DOMAIN runs[p] :
        runs[p][r].pc = "drain" =>
            /\ BufferedAmount(p) > BUFFER_THRESHOLD
            /\ lowThreshold[p] = BUFFER_THRESHOLD
            /\ \E k \in DOMAIN listeners[p] : listeners[p][k] = r

\* No activation of sendFile at p is suspended or has ended with an exception.
SenderIdle(p) == \A r \in DOMAIN runs[p] : Returned(p, r)

EveryRunReturns ==
    \A p \in Peers : []<>(SenderIdle(p) \/ dataChannel[p] = "closed")

C12_SenderProgress == []NoWaitBelowThreshold /\ EveryRunReturns

\* C12 for a session whose codecs were initialised before the first sendFile
\* and whose channel stays open.
ProgressCodecReady == \A p \in Peers : []<>SenderIdle(p)

\* C13: a chunk header handled in AwaitingChunk becomes the pending header; a
\* chunk header handled in Idle or in HaveHeader is logged as a
\* ProtocolViolation and leaves the receiver's state, pending header included,
\* unchanged.
C13_HeaderOutOfState ==
    [][\A p \in Peers :
          LET q == Other(p)
              m == Head(sendBuffer[p])
          IN  Handled(p, "chunk") =>
                  IF RecvState(q) = "AwaitingChunk"
                  THEN /\ incomingFile'[q] # None
                       /\ incomingFile'[q][1].currentChunk # None
                       /\ incomingFile'[q][1].currentChunk[1].index = m.index
                  ELSE /\ "ProtocolViolation" \in logOutput'[q]
                       /\ TransferState(q)' = TransferState(q)]_vars

\* C14: a completion frame handled in Idle or in HaveHeader is logged as a
\* ProtocolViolation and ignored: nothing is delivered and the receiver's
\* state is unchanged; only in AwaitingChunk does it finalize the transfer.
C14_CompletionOutOfState ==
    [][\A p \in Peers :
          LET q == Other(p)
          IN  Handled(p, "complete") =>
                  IF RecvState(q) = "AwaitingChunk"
                  THEN RecvState(q)' = "Idle"
                  ELSE /\ "ProtocolViolation" \in logOutput'[q]
                       /\ fileList'[q] = fileList[q]
                       /\ TransferState(q)' = TransferState(q)]_vars

\* C15: single writer.  On a peer's channel no frame of one transfer lies
\* between the metadata frame and the completion frame of another transfer.
C15_SingleWriter ==
    \A p \in Peers : \A a, b \in DOMAIN sent[p] :
        (/\ a < b
         /\ sent[p][a].type = "metadata"
         /\ sent[p][b].type = "complete"
         /\ sent[p][b].run = sent[p][a].run) =>
            \A k \in a..b : sent[p][k].run = sent[p][a].run

\* C16: header/payload pairing.  Every chunk header on the channel is
\* immediately followed by the binary frame of the same iteration, and every
\* binary frame is immediately preceded by its chunk header.
C16_HeaderPayloadPairing ==
    \A p \in Peers : \A k \in DOMAIN sent[p] :
        /\ sent[p][k].type = "chunk" =>
              /\ k < Len(sent[p])
              /\ sent[p][k + 1].type = "binary"
              /\ sent[p][k + 1].run = sent[p][k].run
        /\ sent[p][k].type = "binary" =>
              /\ k > 1
              /\ sent[p][k - 1].type = "chunk"
              /\ sent[p][k - 1].run = sent[p][k].run

\* Two activations of sendFile have sent chunks in turn, and one is suspended
\* in the drain wait.
C16_Witness ==
    \E p \in Peers : \E j, k \in DOMAIN sent[p] :
        /\ j < k
        /\ sent[p][j].type = "chunk" /\ sent[p][j].run = 2
        /\ sent[p][k].type = "chunk" /\ sent[p][k].run = 1
        /\ \E r \in DOMAIN runs[p] : runs[p][r].pc = "drain"

\* C17: the compressedSize of every chunk header is the byte length of the
\* binary frame that follows it, and equals the header's originalSize when
\* the transfer's metadata says it is not compressed.
C17_HeaderSizes ==
    \A p \in Peers : \A k \in DOMAIN sent[p] :
        (sent[p][k].type = "chunk" /\ k < Len(sent[p])) =>
            /\ sent[p][k].compressedSize = Len(sent[p][k + 1].data)
            /\ ~FramesOf(p, sent[p][k].run)[1].compressed =>
                  sent[p][k].compressedSize = sent[p][k].originalSize

C17_Witness ==
    \E p \in Peers : \E j, k \in DOMAIN sent[p] :
        /\ sent[p][j].type = "chunk" /\ sent[p][k].type = "chunk"
        /\ FramesOf(p, sent[p][j].run)[1].compressed
        /\ sent[p][j].compressedSize > sent[p][j].originalSize
        /\ ~FramesOf(p, sent[p][k].run)[1].compressed
        /\ sent[p][k].originalSize = 1

\* C18: once a completion frame has been handled there is no active transfer,
\* no pending header, no accumulated chunk and receivedSize is 0; and a
\* delivered payload is made of the chunks accumulated since the transfer's
\* own metadata frame only: handling a metadata frame empties the accumulated
\* chunks, and the file delivered is the concatenation of those accumulated.
C18_StateDestroyed ==
    [][\A p \in Peers :
          LET q == Other(p)
          IN  /\ Handled(p, "complete") =>
                    /\ incomingFile'[q] = None
                    /\ receivedChunks'[q] = <<>>
                    /\ receivedSize'[q] = 0
              /\ Handled(p, "metadata") =>
                    /\ receivedChunks'[q] = <<>>
                    /\ receivedSize'[q] = 0
              /\ (Handled(p, "complete") /\ Len(fileList'[q]) > Len(fileList[q])) =>
                    fileList'[q][Len(fileList'[q])].bytes = Combine(receivedChunks[q])]_vars

\* C18 for a receiver whose frames all come from one sendFile run.
StateDestroyedSingleRun ==
    [][\A p \in Peers :
          LET q == Other(p)
          IN  (SingleRun(p) /\ Handled(p, "complete")) =>
                  /\ incomingFile'[q] = None
                  /\ receivedChunks'[q] = <<>>
                  /\ receivedSize'[q] = 0
                  /\ Len(fileList'[q]) > Len(fileList[q]) =>
                        fileList'[q][Len(fileList'[q])].bytes = Combine(receivedChunks[q])]_vars

\* An established session in which both users have files to send.
InitDuplex ==
    /\ InitPeers
    /\ dataChannel = [p \in Peers |-> "open"]
    /\ zstdCodec = [p \in Peers |-> TRUE]
    /\ fileChoices = [p \in Peers |-> Payloads]

NextDuplex ==
    \/ \E p \in Peers : SendFile(p)
    \/ \E p \in Peers : \E r \in 1..MaxRuns : ResumeRead(p, r)
    \/ \E p \in Peers : Deliver(p)

SpecDuplex == InitDuplex /\ [][NextDuplex]_vars

\* C19: benchmark isolation between directions.  When the one sendFile run of
\* a peer has returned, chunksSent is the number of chunks the run sent, and
\* stays so; while a peer receives a transfer, chunksReceived is the number of
\* accumulated chunks.
C19_BenchmarkIsolation ==
    \A p \in Peers :
        /\ (SingleRun(p) /\ runs[p][1].pc = "done") =>
              benchmark[p].chunksSent = Len(HeadersOf(p, 1))
        /\ incomingFile[p] # None =>
              benchmark[p].chunksReceived = Len(receivedChunks[p])

\* C19 for a peer that only sends, or only receives the frames of one run.
BenchmarkOneDirection ==
    \A p \in Peers :
        /\ (SingleRun(p) /\ runs[p][1].pc = "done" /\ sent[Other(p)] = <<>>) =>
              benchmark[p].chunksSent = Len(HeadersOf(p, 1))
        /\ (incomingFile[p] # None /\ runs[p] = <<>> /\ SingleRun(Other(p))) =>
              benchmark[p].chunksReceived = Len(receivedChunks[p])

\* C20: codec readiness.  Neither compressData nor decompressData is reached
\* while zstdCodec is not set: no sendFile run sends its metadata frame and
\* is then ended by compressData's exception, and no binary frame is handed
\* to decompressData before the receiver's codec is ready.
C20_CodecReadiness ==
    \A p \in Peers :
        /\ \A r \in DOMAIN runs[p] : runs[p][r].pc # "Zstd codec not initialized"
        /\ "Zstd codec not initialized" \notin uncaught[p]

\* The chunk header m is not the next in sequence for the transfer q is
\* receiving: its index is not one more than that of the header stored before
\* it, or not 0 when it is the first since the metadata frame.
OutOfSequence(q, m) ==
    LET idx == headersSeen[q].idx
    IN  IF idx = <<>> THEN m.index # 0 ELSE m.index # idx[Len(idx)] + 1

\* The step hands an out-of-sequence chunk header to q, which awaits one.
OutOfSequenceHeader(p) ==
    /\ Handled(p, "chunk")
    /\ RecvState(Other(p)) = "AwaitingChunk"
    /\ ~headersSeen[Other(p)].done
    /\ OutOfSequence(Other(p), Head(sendBuffer[p]))

\* C21: an out-of-sequence chunk header is reported and does not abort the
\* transfer: the header becomes the pending header and the accumulated chunks
\* are kept.
C21_OutOfSequenceReported ==
    [][\A p \in Peers :
          LET q == Other(p)
          IN  OutOfSequenceHeader(p) =>
                  /\ "OutOfSequence" \in logOutput'[q]
                  /\ RecvState(q)' = "HaveHeader"
                  /\ incomingFile'[q][1].currentChunk[1].index = Head(sendBuffer[p]).index
                  /\ receivedChunks'[q] = receivedChunks[q]]_vars

\* The part of C21 that is about the transfer going on: the out-of-sequence
\* header becomes pending, and the payload handled in HaveHeader of a transfer
\* that is not compressed is appended to the accumulated chunks.
OutOfSequenceNotFatal ==
    [][\A p \in Peers :
          LET q == Other(p)
          IN  /\ OutOfSequenceHeader(p) =>
                    /\ RecvState(q)' = "HaveHeader"
                    /\ incomingFile'[q][1].currentChunk[1].index = Head(sendBuffer[p]).index
                    /\ receivedChunks'[q] = receivedChunks[q]
              /\ (/\ Handled(p, "binary")
                  /\ lastRecv'.to = q
                  /\ RecvState(q) = "HaveHeader"
                  /\ ~incomingFile[q][1].compressed
                  /\ sendBuffer'[p] = Tail(sendBuffer[p])
                  /\ faults' = faults) =>
                    receivedChunks'[q] = Append(receivedChunks[q],
                                                Some(Head(sendBuffer[p]).data))]_vars

====
